---------------------------- MODULE Spec2Model ----------------------------
(***************************************************************************)
(* A model of best_stocks.py: the Streamlit page that ranks the S&P 500    *)
(* symbols by market capitalisation (get_market_caps), scans their call    *)
(* chains for covered calls (get_covered_calls) and shows the best one per *)
(* symbol.                                                                 *)
(*                                                                         *)
(* Units.  Money is an integer number of mills (1/1000 of a dollar), and   *)
(* the arithmetic on it is exact.  A premium ratio is kept as a pair       *)
(* (bid, current_price) until the code rounds it; 'Premium Ratio (%)' is   *)
(* an integer number of hundredths of a percent.  min_premium_ratio is an  *)
(* integer number of basis points (the widget's percent value times 100,   *)
(* which is the ratio times 10000).  A date is a day number; today is day  *)
(* 0, and the time of day of datetime.now() is a whole hour, the same for   *)
(* every read of one run.                                                  *)
(*                                                                         *)
(* One press of the button is modelled, split at each fetch from the data  *)
(* provider; st.cache_data, which only matters to a second press, is not.  *)
(***************************************************************************)
EXTENDS Integers, Sequences, FiniteSets, TLC

\* ------------------------------------------------------------------ bounds
MaxSymbols == 2
MaxDates == 2
MaxOptions == 2
MaxRecords == 3

\* ------------------------------------------------------- program constants
TopN == 500
DefaultMinPremiumPct == 3
DefaultMaxExpirationDays == 8
MinExpirationDays == 1
MaxExpirationDaysLimit == 30

\* -------------------------------------------------------- the input domains
SeqsUpTo(S, n) == UNION {[1..k -> S] : k \in 0..n}

\* Strictly ascending sequences, as a provider lists expirations.
AscendingSeqs(S, n) ==
    {s \in SeqsUpTo(S, n) : \A i \in 1..Len(s), j \in 1..Len(s) : i < j => s[i] < s[j]}

Symbols == {"A", "B"}
\* An optional value: None, or Some(v).
None == <<>>
Some(v) == <<v>>

\* What stock.info.get('marketCap', 0) can hand back: None, 0 or a number.
MarketCapValues == {None, Some(0), Some(-1), Some(1), Some(2)}

\* The widget values a user may type, valid or not: percent, and days.
MinPremiumEntries == {-1, 0}
MaxDaysEntries == {0, 1, 31}

\* Hours of the day at which datetime.now() may be read.
Hours == {0, 10}

\* Day numbers of the expirations a provider may list (today is day 0).
PageDays == {1}
ScanDays == {1, 9}
FilterDays == {-1, 0, 1, 2, 3, 8, 9, 10}

\* Last closes a provider may report (mills): None is an empty history and 0 an
\* invalid price.
ScanPrices == {None, Some(0), Some(5000)}
PagePrices == {None, Some(5000)}
FilterPrices == {4000, 5000}

\* Contracts (strike, bid) a provider may list in a call chain.
ScanContracts == {[strike |-> 5000, bid |-> 150], [strike |-> 5000, bid |-> 300],
                  [strike |-> 6001, bid |-> 300], [strike |-> 5000, bid |-> 0]}
ScanChains == SeqsUpTo(ScanContracts, 1)
PageChains == {<<>>, <<[strike |-> 5000, bid |-> 300]>>}
FilterContracts == [strike : {4800, 4999, 5000, 6000, 6001},
                    bid : {0, 149, 150, 5000, 5001}]
FilterMinRatios == {0, 300}
FilterMaxDays == {MinExpirationDays, DefaultMaxExpirationDays}

VARIABLES
    pc,                   \* where the script is
    raised,               \* what raised the exception that ended the run, or "none"
    min_premium_ratio,    \* basis points
    max_expiration_days,
    rejected,             \* the widgets showing that their entry was refused
    now_hour,             \* the hour datetime.now() reads during the run
    all_symbols,
    ri,                   \* get_market_caps: index of the next symbol
    companies,
    top_companies,
    si,                   \* get_covered_calls: index of the current symbol
    current_price,
    options_dates,
    valid_dates,
    di,                   \* index of the next date of valid_dates
    options,              \* the call chain last fetched
    results,
    covered_calls,
    reaggregated,         \* the aggregation step applied to covered_calls
    diagnostics           \* what st.write reported: a set of <<where, symbol, date>>

vars == <<pc, raised, min_premium_ratio, max_expiration_days, rejected, now_hour,
          all_symbols, ri, companies, top_companies, si, current_price,
          options_dates, valid_dates, di, options, results, covered_calls,
          reaggregated, diagnostics>>

\* ----------------------------------------------------------------- helpers
Min(a, b) == IF a <= b THEN a ELSE b

\* The orders in which the indices idxs can be listed with keys non-increasing.
RECURSIVE DescendingOrders(_, _)
DescendingOrders(keys, idxs) ==
    IF idxs = {} THEN {<<>>}
    ELSE LET top == {i \in idxs : \A j \in idxs : keys[i] >= keys[j]}
         IN  UNION {{<<i>> \o t : t \in DescendingOrders(keys, idxs \ {i})} : i \in top}

SymbolsOf(df) == {df[i].Symbol : i \in 1..Len(df)}

\* Python's round(): the quotient num / den to the nearest integer, halves to even.
RoundHalfEven(num, den) ==
    LET q == num \div den
        r == num % den
    IN  IF 2 * r < den THEN q
        ELSE IF 2 * r > den THEN q + 1
        ELSE IF q % 2 = 0 THEN q ELSE q + 1

\* ------------------------------------------------- the aggregation step
\* DataFrame.sort_values(by='Premium Ratio (%)', ascending=False).  The default
\* kind is quicksort, which promises no order among rows with equal keys: every
\* non-increasing arrangement of the rows is a possible outcome.
SortByPremiumRatio(df) ==
    {[i \in 1..Len(df) |-> df[p[i]]] : p \in
        DescendingOrders([i \in 1..Len(df) |-> df[i].PremiumRatioPct], 1..Len(df))}

RECURSIVE KeepFirst(_, _, _)
KeepFirst(df, i, seen) ==
    IF i > Len(df) THEN <<>>
    ELSE IF df[i].Symbol \in seen THEN KeepFirst(df, i + 1, seen)
    ELSE <<df[i]>> \o KeepFirst(df, i + 1, seen \cup {df[i].Symbol})

RECURSIVE KeepFirstPerDate(_, _, _)
KeepFirstPerDate(df, i, seen) ==
    IF i > Len(df) THEN <<>>
    ELSE IF df[i].ExpirationDate \in seen THEN KeepFirstPerDate(df, i + 1, seen)
    ELSE <<df[i]>> \o KeepFirstPerDate(df, i + 1, seen \cup {df[i].ExpirationDate})

\* A slip in the subset column: one row per expiration date instead of per symbol.
DropDuplicatesByDate(df) == KeepFirstPerDate(df, 1, {})

\* DataFrame.drop_duplicates(subset=['Symbol'], keep='first').
DropDuplicates(df) == KeepFirst(df, 1, {})

\* pd.DataFrame([]) has no columns: sort_values(by=...) raises KeyError on it.
SortRaises(rows) == rows = <<>>

\* Lines 95-97 on a non-empty list of rows: the frames the step may return.
Aggregate(rows) == {DropDuplicates(df) : df \in SortByPremiumRatio(rows)}

\* ------------------------------------------------------ the contract filter
\* round(row['premium_ratio'] * 100, 2), in hundredths of a percent.
PremiumRatioPct(bid, price) == RoundHalfEven(bid * 10000, price)

\* round(current_price, 2), in cents.
RoundedPrice(price) == RoundHalfEven(price, 10)

\* A slip in the upper bound: < for <=.
StrikeOpenBound(o, price) ==
    /\ o.bid > 0
    /\ o.strike >= price
    /\ o.strike * 10 < price * 12

\* bid > 0, strike >= current_price, strike <= current_price * 1.2.
StrikeFilter(o, price) ==
    /\ o.bid > 0
    /\ o.strike >= price
    /\ o.strike * 10 <= price * 12

\* premium_ratio >= min_premium_ratio, premium_ratio <= 1.
RatioFilter(o, price, minratio) ==
    /\ o.bid * 10000 >= minratio * price
    /\ o.bid <= price

FilterOptions(chain, price, minratio) ==
    SelectSeq(chain, LAMBDA o : StrikeFilter(o, price) /\ RatioFilter(o, price, minratio))

\* The rows one call chain appends to results.
Rows(symbol, date, chain, price, minratio) ==
    LET kept == FilterOptions(chain, price, minratio)
    IN  [i \in 1..Len(kept) |->
            [Symbol |-> symbol, ExpirationDate |-> date,
             StrikePrice |-> kept[i].strike, BidPrice |-> kept[i].bid,
             PremiumRatioPct |-> PremiumRatioPct(kept[i].bid, price),
             CurrentPrice |-> RoundedPrice(price)]]

\* ---------------------------------------------------------- the date filter
\* (datetime.strptime(date, '%Y-%m-%d') - datetime.now()).days: the midnight that
\* starts day `date`, less now (day 0 at `hour`), in whole days rounded down.
DaysUntil(date, hour) == (date * 24 - hour) \div 24

ValidDates(dates, maxdays, hour) ==
    SelectSeq(dates, LAMBDA d : DaysUntil(d, hour) <= maxdays)

\* ------------------------------------------------------- the universe ranker
\* `if market_cap:` keeps what Python finds truthy: not None, not 0.
Truthy(cap) == cap # None /\ cap # Some(0)

\* DataFrame.sort_values(by='Market Cap', ascending=False), default quicksort.
SortByMarketCap(df) ==
    {[i \in 1..Len(df) |-> df[p[i]]] : p \in
        DescendingOrders([i \in 1..Len(df) |-> df[i].MarketCap], 1..Len(df))}

\* companies_df['Symbol'].tolist()[:500]
TopSymbols(df) == [i \in 1..Min(TopN, Len(df)) |-> df[i].Symbol]

\* ------------------------------------------------------------- the widgets
\* A slip: number_input without min_value.
MinPremiumUnbounded(v) == TRUE

\* st.number_input(..., min_value=0.0): the frontend commits a value in range
\* and refuses, with a validity message, one that is not.
MinPremiumAccepted(v) == v >= 0

\* st.number_input(..., min_value=1, max_value=30)
MaxDaysAccepted(v) == v >= MinExpirationDays /\ v <= MaxExpirationDaysLimit

\* --------------------------------------------------------------- the page
Init ==
    /\ pc = "idle"
    /\ raised = "none"
    /\ min_premium_ratio = DefaultMinPremiumPct * 100
    /\ max_expiration_days = DefaultMaxExpirationDays
    /\ rejected = {}
    /\ now_hour = 0
    /\ all_symbols = <<>>
    /\ ri = 1
    /\ companies = <<>>
    /\ top_companies = <<>>
    /\ si = 1
    /\ current_price = None
    /\ options_dates = <<>>
    /\ valid_dates = <<>>
    /\ di = 1
    /\ options = <<>>
    /\ results = <<>>
    /\ covered_calls = <<>>
    /\ reaggregated = <<>>
    /\ diagnostics = {}

config == <<min_premium_ratio, max_expiration_days, rejected>>
locals == <<current_price, options_dates, valid_dates, di, options>>

\* Line 102: the user types v percent into "Minimum Premium Ratio (%)".
EnterMinPremium(v) ==
    /\ pc = "idle"
    /\ IF MinPremiumAccepted(v)
       THEN min_premium_ratio' = v * 100
            /\ rejected' = rejected \ {"min_premium_ratio"}
       ELSE min_premium_ratio' = min_premium_ratio
            /\ rejected' = rejected \cup {"min_premium_ratio"}
    /\ UNCHANGED <<pc, raised, max_expiration_days, now_hour, all_symbols, ri,
                   companies, top_companies, si, locals, results, covered_calls,
                   reaggregated, diagnostics>>

\* Line 103: the user types v into "Max Expiration Days".
EnterMaxDays(v) ==
    /\ pc = "idle"
    /\ IF MaxDaysAccepted(v)
       THEN max_expiration_days' = v
            /\ rejected' = rejected \ {"max_expiration_days"}
       ELSE max_expiration_days' = max_expiration_days
            /\ rejected' = rejected \cup {"max_expiration_days"}
    /\ UNCHANGED <<pc, raised, min_premium_ratio, now_hour, all_symbols, ri,
                   companies, top_companies, si, locals, results, covered_calls,
                   reaggregated, diagnostics>>

\* Lines 31-32 and the call of get_covered_calls that follows at line 109: the
\* sort of companies, which raises on an empty list, and the top 500.
RankReturn(comps) ==
    IF SortRaises(comps)
    THEN /\ pc' = "failed"
         /\ raised' = "KeyError: 'Market Cap'"
         /\ top_companies' = top_companies
    ELSE /\ pc' = "price"
         /\ raised' = raised
         /\ \E df \in SortByMarketCap(comps) : top_companies' = TopSymbols(df)

\* Lines 106-107: the button; get_sp500_symbols cannot read the list.
ClickUniverseFails ==
    /\ pc = "idle"
    /\ pc' = "failed"
    /\ raised' = "read_csv"
    /\ now_hour' \in Hours
    /\ UNCHANGED <<config, all_symbols, ri, companies, top_companies, si, locals,
                   results, covered_calls, reaggregated, diagnostics>>

\* Lines 106-108: the button; get_sp500_symbols returns the list.  With no
\* symbol the loop of get_market_caps has no turn and it sorts at once.
ClickButton(symbols) ==
    /\ pc = "idle"
    /\ now_hour' \in Hours
    /\ all_symbols' = symbols
    /\ IF symbols = <<>>
       THEN RankReturn(<<>>)
       ELSE pc' = "rank" /\ raised' = raised /\ top_companies' = top_companies
    /\ UNCHANGED <<config, ri, companies, si, locals, results, covered_calls,
                   reaggregated, diagnostics>>

\* The end of one turn of the loop of get_market_caps.
RankStep(comps) ==
    /\ companies' = comps
    /\ ri' = ri + 1
    /\ IF ri < Len(all_symbols)
       THEN pc' = pc /\ raised' = raised /\ top_companies' = top_companies
       ELSE RankReturn(comps)

\* Lines 24-30: the fetch of one market cap raises.
RankFetchFails ==
    /\ pc = "rank"
    /\ diagnostics' = diagnostics \cup {<<"market_cap", all_symbols[ri], None>>}
    /\ RankStep(companies)
    /\ UNCHANGED <<config, now_hour, all_symbols, si, locals, results,
                   covered_calls, reaggregated>>

\* Lines 24-28: the fetch of one market cap answers.
RankFetch(cap) ==
    /\ pc = "rank"
    /\ RankStep(IF Truthy(cap)
                THEN Append(companies, [Symbol |-> all_symbols[ri], MarketCap |-> cap[1]])
                ELSE companies)
    /\ UNCHANGED <<config, now_hour, all_symbols, si, locals, results,
                   covered_calls, reaggregated, diagnostics>>

\* Lines 95-97 and 113-116: the sort of results, which raises on an empty
\* list, the best row per symbol, and what the page shows.
ScanReturn(res) ==
    IF SortRaises(res)
    THEN /\ pc' = "failed"
         /\ raised' = "KeyError: 'Premium Ratio (%)'"
         /\ covered_calls' = covered_calls
    ELSE /\ raised' = raised
         /\ covered_calls' \in Aggregate(res)
         /\ pc' = IF covered_calls' # <<>> THEN "table" ELSE "no_matches"

\* `continue`, or the end of the body of the loop over stock_symbols.  The
\* locals of the body are dead here (the next turn assigns each before it reads
\* it), and are cleared.
NextSymbol(res) ==
    /\ results' = res
    /\ current_price' = None
    /\ options_dates' = <<>>
    /\ valid_dates' = <<>>
    /\ di' = 1
    /\ IF si < Len(top_companies)
       THEN si' = si + 1 /\ pc' = "price" /\ raised' = raised
            /\ covered_calls' = covered_calls
       ELSE si' = si /\ ScanReturn(res)

\* Lines 41-49: history raises IndexError, KeyError or ValueError.
PriceRaisesCaught ==
    /\ pc = "price"
    /\ diagnostics' = diagnostics \cup {<<"price", top_companies[si], None>>}
    /\ NextSymbol(results)
    /\ UNCHANGED <<config, now_hour, all_symbols, ri, companies, top_companies,
                   options, reaggregated>>

\* Lines 41-49: history raises anything else, which no handler catches.
PriceRaisesOther ==
    /\ pc = "price"
    /\ pc' = "failed"
    /\ raised' = "history"
    /\ UNCHANGED <<config, now_hour, all_symbols, ri, companies, top_companies, si,
                   locals, results, covered_calls, reaggregated, diagnostics>>

\* Lines 42-46: history answers.
PriceFetch(price) ==
    /\ pc = "price"
    /\ IF price = None \/ price[1] <= 0
       THEN /\ diagnostics' = diagnostics \cup {<<"price", top_companies[si], None>>}
            /\ NextSymbol(results)
       ELSE /\ pc' = "dates"
            /\ current_price' = price
            /\ UNCHANGED <<raised, si, results, covered_calls, diagnostics,
                           options_dates, valid_dates, di>>
    /\ UNCHANGED <<config, now_hour, all_symbols, ri, companies, top_companies,
                   options, reaggregated>>

\* Lines 52-60: stock.options raises.
DatesRaise ==
    /\ pc = "dates"
    /\ diagnostics' = diagnostics \cup {<<"dates", top_companies[si], None>>}
    /\ NextSymbol(results)
    /\ UNCHANGED <<config, now_hour, all_symbols, ri, companies, top_companies,
                   options, reaggregated>>

\* Lines 52-57 and 62: stock.options answers.
DatesFetch(dates) ==
    /\ pc = "dates"
    /\ IF ValidDates(dates, max_expiration_days, now_hour) = <<>>
       THEN NextSymbol(results)
       ELSE /\ pc' = "chain"
            /\ options_dates' = dates
            /\ valid_dates' = ValidDates(dates, max_expiration_days, now_hour)
            /\ di' = 1
            /\ UNCHANGED <<raised, si, results, covered_calls, current_price>>
    /\ UNCHANGED <<config, now_hour, all_symbols, ri, companies, top_companies,
                   options, reaggregated, diagnostics>>

\* The end of one turn of the loop over valid_dates.
NextDate(res) ==
    IF di < Len(valid_dates)
    THEN /\ di' = di + 1
         /\ results' = res
         /\ UNCHANGED <<pc, raised, si, covered_calls, current_price, options_dates,
                        valid_dates>>
    ELSE NextSymbol(res)

\* Lines 63-64 and 91-92: option_chain raises.
ChainRaises ==
    /\ pc = "chain"
    /\ diagnostics' = diagnostics
                      \cup {<<"chain", top_companies[si], Some(valid_dates[di])>>}
    /\ NextDate(results)
    /\ UNCHANGED <<config, now_hour, all_symbols, ri, companies, top_companies,
                   options, reaggregated>>

\* Lines 63-89: option_chain answers.
ChainFetch(chain) ==
    /\ pc = "chain"
    /\ NextDate(results \o Rows(top_companies[si], valid_dates[di], chain,
                                current_price[1], min_premium_ratio))
    /\ UNCHANGED <<config, now_hour, all_symbols, ri, companies, top_companies,
                   options, reaggregated, diagnostics>>

Next ==
    \/ \E v \in MinPremiumEntries : EnterMinPremium(v)
    \/ \E v \in MaxDaysEntries : EnterMaxDays(v)
    \/ ClickUniverseFails
    \/ \E symbols \in SeqsUpTo(Symbols, MaxSymbols) : ClickButton(symbols)
    \/ RankFetchFails
    \/ \E cap \in MarketCapValues : RankFetch(cap)
    \/ PriceRaisesCaught
    \/ PriceRaisesOther
    \/ \E price \in PagePrices : PriceFetch(price)
    \/ DatesRaise
    \/ \E dates \in AscendingSeqs(PageDays, MaxDates) : DatesFetch(dates)
    \/ ChainRaises
    \/ \E chain \in PageChains : ChainFetch(chain)

Spec == Init /\ [][Next]_vars

\* ------------------------------------------------ get_covered_calls on its own
InitScan ==
    /\ pc = "scan"
    /\ top_companies \in SeqsUpTo(Symbols, MaxSymbols)
    /\ min_premium_ratio \in FilterMinRatios
    /\ max_expiration_days = DefaultMaxExpirationDays
    /\ now_hour \in Hours
    /\ raised = "none"
    /\ rejected = {}
    /\ all_symbols = <<>>
    /\ ri = 1
    /\ companies = <<>>
    /\ si = 1
    /\ current_price = None
    /\ options_dates = <<>>
    /\ valid_dates = <<>>
    /\ di = 1
    /\ options = <<>>
    /\ results = <<>>
    /\ covered_calls = <<>>
    /\ reaggregated = <<>>
    /\ diagnostics = {}

\* Lines 34-37: the call; with no symbol the loop has no turn.
CallScan ==
    /\ pc = "scan"
    /\ IF top_companies = <<>>
       THEN ScanReturn(<<>>)
       ELSE pc' = "price" /\ UNCHANGED <<raised, covered_calls>>
    /\ UNCHANGED <<config, now_hour, all_symbols, ri, companies, top_companies, si,
                   locals, results, reaggregated, diagnostics>>

NextScan ==
    \/ CallScan
    \/ PriceRaisesCaught
    \/ PriceRaisesOther
    \/ \E price \in ScanPrices : PriceFetch(price)
    \/ DatesRaise
    \/ \E dates \in AscendingSeqs(ScanDays, MaxDates) : DatesFetch(dates)
    \/ ChainRaises
    \/ \E chain \in ScanChains : ChainFetch(chain)

SpecScan == InitScan /\ [][NextScan]_vars

\* ------------------------------------------- the contract filter on its own
InitFilter ==
    /\ pc = "filter_in"
    /\ current_price \in {Some(p) : p \in FilterPrices}
    /\ min_premium_ratio \in FilterMinRatios
    /\ options \in SeqsUpTo(FilterContracts, MaxOptions)
    /\ top_companies = <<"A">>
    /\ valid_dates = <<1>>
    /\ options_dates = <<1>>
    /\ max_expiration_days = DefaultMaxExpirationDays
    /\ now_hour = 0
    /\ raised = "none"
    /\ rejected = {}
    /\ all_symbols = <<>>
    /\ ri = 1
    /\ companies = <<>>
    /\ si = 1
    /\ di = 1
    /\ results = <<>>
    /\ covered_calls = <<>>
    /\ reaggregated = <<>>
    /\ diagnostics = {}

\* Lines 66-89 applied to the chain in options.
FilterChain ==
    /\ pc = "filter_in"
    /\ pc' = "filter_out"
    /\ results' = results \o Rows(top_companies[si], valid_dates[di], options,
                                  current_price[1], min_premium_ratio)
    /\ UNCHANGED <<raised, config, now_hour, all_symbols, ri, companies,
                   top_companies, si, locals, covered_calls, reaggregated,
                   diagnostics>>

NextFilter == FilterChain

SpecFilter == InitFilter /\ [][NextFilter]_vars

\* ----------------------------------------------- the date filter on its own
InitDates ==
    /\ pc = "dates_in"
    /\ options_dates \in AscendingSeqs(FilterDays, MaxDates)
    /\ max_expiration_days \in FilterMaxDays
    /\ now_hour \in Hours
    /\ current_price = Some(5000)
    /\ min_premium_ratio = DefaultMinPremiumPct * 100
    /\ options = <<>>
    /\ top_companies = <<"A">>
    /\ valid_dates = <<>>
    /\ raised = "none"
    /\ rejected = {}
    /\ all_symbols = <<>>
    /\ ri = 1
    /\ companies = <<>>
    /\ si = 1
    /\ di = 1
    /\ results = <<>>
    /\ covered_calls = <<>>
    /\ reaggregated = <<>>
    /\ diagnostics = {}

\* Lines 53-57 applied to the dates in options_dates.
FilterDates ==
    /\ pc = "dates_in"
    /\ pc' = "dates_out"
    /\ valid_dates' = ValidDates(options_dates, max_expiration_days, now_hour)
    /\ UNCHANGED <<raised, config, now_hour, all_symbols, ri, companies,
                   top_companies, si, current_price, options_dates, di, options,
                   results, covered_calls, reaggregated, diagnostics>>

NextDates == FilterDates

SpecDates == InitDates /\ [][NextDates]_vars

\* ------------------------------------------- the aggregation step on its own
\* The rows the scanner can build for a symbol priced at 5.000.
AggRecords ==
    UNION {{Rows(s, 1, <<o>>, 5000, 0)[1] : o \in [strike : {5000, 5500}, bid : {200, 300}]}
           : s \in Symbols}

InitAgg ==
    /\ pc = "agg_in"
    /\ results \in SeqsUpTo(AggRecords, MaxRecords)
    /\ raised = "none"
    /\ min_premium_ratio = 0
    /\ max_expiration_days = DefaultMaxExpirationDays
    /\ rejected = {}
    /\ now_hour = 0
    /\ all_symbols = <<>>
    /\ ri = 1
    /\ companies = <<>>
    /\ top_companies = <<>>
    /\ si = 1
    /\ current_price = None
    /\ options_dates = <<>>
    /\ valid_dates = <<>>
    /\ di = 1
    /\ options = <<>>
    /\ covered_calls = <<>>
    /\ reaggregated = <<>>
    /\ diagnostics = {}

\* Lines 95-97 applied to results.
AggregateOnce ==
    /\ pc = "agg_in"
    /\ IF SortRaises(results)
       THEN /\ pc' = "failed"
            /\ raised' = "KeyError: 'Premium Ratio (%)'"
            /\ covered_calls' = covered_calls
       ELSE /\ pc' = "agg_out"
            /\ raised' = raised
            /\ covered_calls' \in Aggregate(results)
    /\ UNCHANGED <<min_premium_ratio, max_expiration_days, rejected, now_hour,
                   all_symbols, ri, companies, top_companies, si, current_price,
                   options_dates, valid_dates, di, options, results, reaggregated,
                   diagnostics>>

\* Lines 95-97 applied to their own output.
AggregateAgain ==
    /\ pc = "agg_out"
    /\ IF SortRaises(covered_calls)
       THEN /\ pc' = "failed"
            /\ raised' = "KeyError: 'Premium Ratio (%)'"
            /\ reaggregated' = reaggregated
       ELSE /\ pc' = "agg_twice"
            /\ raised' = raised
            /\ reaggregated' \in Aggregate(covered_calls)
    /\ UNCHANGED <<min_premium_ratio, max_expiration_days, rejected, now_hour,
                   all_symbols, ri, companies, top_companies, si, current_price,
                   options_dates, valid_dates, di, options, results, covered_calls,
                   diagnostics>>

NextAgg == AggregateOnce \/ AggregateAgain

SpecAgg == InitAgg /\ [][NextAgg]_vars

\* At most one row per symbol.
OnePerSymbol(df) == \A i, j \in 1..Len(df) : df[i].Symbol = df[j].Symbol => i = j

\* Every row of df is a row of rows with the largest ratio of its symbol.
BestOfSymbol(rows, df) ==
    \A i \in 1..Len(df) :
        /\ \E k \in 1..Len(rows) : rows[k] = df[i]
        /\ \A k \in 1..Len(rows) :
            rows[k].Symbol = df[i].Symbol => rows[k].PremiumRatioPct <= df[i].PremiumRatioPct

\* C2: for every sequence of rows, the aggregation step returns a frame with at
\* most one row per symbol, each the row of the largest premium ratio of its symbol.
C2_AggregateReturnsBestPerSymbol ==
    pc # "agg_in" =>
        /\ raised = "none"
        /\ OnePerSymbol(covered_calls)
        /\ BestOfSymbol(results, covered_calls)

\* C9: for every sequence of rows, the aggregation step applied to its own output
\* returns the same rows in the same order.
C9_AggregateIdempotent ==
    pc \notin {"agg_in", "agg_out"} =>
        /\ pc = "agg_twice"
        /\ reaggregated = covered_calls

\* What holds of the step wherever it returns.
AggregateWhereItReturns ==
    /\ pc \in {"agg_out", "agg_twice"} =>
        OnePerSymbol(covered_calls) /\ BestOfSymbol(results, covered_calls)
    /\ pc = "agg_twice" =>
        {reaggregated[i] : i \in 1..Len(reaggregated)}
            = {covered_calls[i] : i \in 1..Len(covered_calls)}

\* ---------------------------------------------------------------- the page
Count(seq, x) == Cardinality({i \in 1..Len(seq) : seq[i] = x})

\* get_market_caps was called and has ended.
RankOver == pc \notin {"idle", "rank"} /\ raised # "read_csv"

\* The run of the button has ended.
RunOver == pc \in {"failed", "table", "no_matches"}

\* C1: for every list of symbols (here: every one that names a symbol),
\* get_market_caps returns at most TopN of them, no symbol more often than the list
\* holds it, in an order of non-increasing market cap, and none of them with an
\* unknown, zero or negative cap.
C1_RankReturnsTopByPositiveCap ==
    (RankOver /\ all_symbols # <<>>) =>
        /\ raised # "KeyError: 'Market Cap'"
        /\ Len(top_companies) <= TopN
        /\ \A s \in Symbols : Count(top_companies, s) <= Count(all_symbols, s)
        /\ \E p \in DescendingOrders([k \in 1..Len(companies) |-> companies[k].MarketCap],
                                     1..Len(companies)) :
            \A i \in 1..Len(top_companies) :
                /\ top_companies[i] = companies[p[i]].Symbol
                /\ companies[p[i]].MarketCap > 0

\* C8: a market cap fetch that fails is reported and drops its symbol only: whatever
\* symbols fail, get_market_caps is not aborted and returns the rest, ranked.
C8_RankSurvivesFetchFailures ==
    (RankOver /\ \E d \in diagnostics : d[1] = "market_cap") =>
        /\ raised # "KeyError: 'Market Cap'"
        /\ Len(top_companies) = Len(companies)

\* C6: a run over a list of symbols in which no contract passed the filters, the
\* run with no ranked symbol included, ends in the "no covered calls found" state
\* with an empty result, not in a failure (a run that an unreadable symbol list or
\* an uncaught price fetch ended is set aside).
C6_EmptyRunEndsInNoMatches ==
    (RunOver /\ all_symbols # <<>> /\ results = <<>>
        /\ raised \notin {"read_csv", "history"}) =>
        /\ pc = "no_matches"
        /\ covered_calls = <<>>

ValidConfiguration ==
    /\ min_premium_ratio >= 0
    /\ max_expiration_days \in MinExpirationDays..MaxExpirationDaysLimit

C3_FetchFailureNeverEndsScan == ~(pc = "failed" /\ raised = "history")

\* C10: after a completed scan a symbol is in the final frame if and only if one of
\* its contracts passed the filters, that is, has a row in results; and every row of
\* the frame is such a row.
C10_SymbolInFrameIffQualified ==
    pc \in {"table", "no_matches"} =>
        /\ SymbolsOf(covered_calls) = SymbolsOf(results)
        /\ \A i \in 1..Len(covered_calls) :
            \E k \in 1..Len(results) : results[k] = covered_calls[i]

\* C10's case: a list that names a symbol twice, and rows dropped by the frame.
C10_Witness ==
    /\ pc = "table"
    /\ \E i, j \in 1..Len(top_companies) : i < j /\ top_companies[i] = top_companies[j]
    /\ Len(results) > Len(covered_calls)

\* ------------------------------------------------------ the contract filter
Emitted(o) ==
    \E k \in 1..Len(results) :
        /\ results[k].StrikePrice = o.strike
        /\ results[k].BidPrice = o.bid
        /\ results[k].Symbol = top_companies[si]
        /\ results[k].ExpirationDate = valid_dates[di]

\* bid > 0, P <= strike <= 1.2 P, minPremiumRatio <= bid / P <= 1.
Qualifies(o) ==
    /\ o.bid > 0
    /\ current_price[1] <= o.strike
    /\ 5 * o.strike <= 6 * current_price[1]
    /\ min_premium_ratio * current_price[1] <= 10000 * o.bid
    /\ o.bid <= current_price[1]

C5_DateScannedIffWithinDays ==
    pc = "dates_out" =>
        \A i \in 1..Len(options_dates) :
            (\E k \in 1..Len(valid_dates) : valid_dates[k] = options_dates[i])
                <=> options_dates[i] <= max_expiration_days

=============================================================================
